---- MODULE Spec2Model ----
(***************************************************************************)
(* WebhookProgressPlugin (src/WebhookProgressPlugin.py) as a state         *)
(* machine: the tracker fields, the push handlers, the poller tick, the    *)
(* dispatcher and the sender threads.                                      *)
(*                                                                         *)
(* Conventions of the model                                                *)
(*  - A progress float is an integer number of thousandths (0.11 is 110);  *)
(*    int(progress * 100) is the truncating division by 10.                *)
(*  - time.time() is the integer clock `now`; every call inside one        *)
(*    handler reads the same value.                                        *)
(*  - A job object is named by a string; None is the string "None".        *)
(***************************************************************************)
EXTENDS Integers, Sequences, FiniteSets, TLC

VARIABLES
    webhook_url,        \* self._webhook_url
    last_progress,      \* self._last_progress
    is_printing,        \* self._is_printing
    current_job_name,   \* self._current_job_name
    print_start_time,   \* self._print_start_time
    activePrintJob,     \* host: device -> its activePrintJob (or None, or no such attribute)
    now,                \* host: time.time()
    threads,            \* the sender threads that are started and have not run yet, oldest first
    check_timer_active, \* self._check_timer is running and its timeout reaches the slot
    started_job,        \* history: the job_name of the print_started generated since the
                        \* last print_ended ("" when there is none)
    start_dispatched,   \* history: a thread was started for that print_started
    last                \* history: the handler that ran last, its inputs and what it did

vars == <<webhook_url, last_progress, is_printing, current_job_name, print_start_time,
          activePrintJob, now, threads, check_timer_active, started_job,
          start_dispatched, last>>

----------------------------------------------------------------------------
(* Bounds of the model. *)

\* at most this many sender threads are in flight at once
MaxThreads == 2
\* the clock stops here
MaxTime == 2

----------------------------------------------------------------------------
(* Values. *)

None == "None"
NoAttr == "NoAttr"

\* the placeholder of _load_settings, compared against in three places
SentinelUrl == "https://your-webhook-url.com/progress"
UrlA == "https://hooks.example/a"
UrlB == "https://hooks.example/b"
Urls == {"", SentinelUrl, UrlA, UrlB}

\* job objects of the host: one with getName, one without
Jobs == {"benchy.gcode", "job_without_getName"}

\* the printer output devices of the host, in the order of the device list
Devices == {1, 2}

\* progress floats in [0,1], in thousandths
ProgressVals == {0, 100, 105, 110}

PluginVersion == "1.0.0"

\* `not self._webhook_url or self._webhook_url == "https://your-webhook-url.com/progress"`
Unconfigured(url) == url = "" \/ url = SentinelUrl

\* hasattr(job, 'getName')
HasGetName(job) == job # "job_without_getName"

\* job.getName() if hasattr(job, 'getName') else "Unknown"
JobName(job) == IF HasGetName(job) THEN job ELSE "Unknown"

\* int(x) of Python truncates toward zero; x is progress * 100, progress in thousandths
IntPercent(progress) ==
    IF progress >= 0 THEN progress \div 10 ELSE -((-progress) \div 10)

\* elapsed_time / (progress if progress > 0 else 0.01), truncated to an integer
EstimatedTotal(elapsed, progress) ==
    IF progress > 0 THEN (elapsed * 1000) \div progress ELSE elapsed * 100

----------------------------------------------------------------------------
(* The plugin object as a record, so that the handlers compose. S.emitted is  *)
(* history: the calls of _send_webhook_update made since the handler began.  *)

Self ==
    [ is_printing |-> is_printing,
      current_job_name |-> current_job_name,
      print_start_time |-> print_start_time,
      last_progress |-> last_progress,
      emitted |-> <<>>,
      threads |-> threads ]

\* _send_webhook_update without its guard on the URL
send_webhook_update_unguarded(S, url, event_type, data, was) ==
    [S EXCEPT !.emitted = Append(@, [ event_type |-> event_type, data |-> data,
                                      dispatched |-> TRUE, was |-> was ]),
              !.threads = Append(@, [ payload |-> [ event_type |-> event_type,
                                                    data |-> data,
                                                    plugin_version |-> "1.0.0" ],
                                      dispatch_url |-> url ])]

\* _send_webhook_update that starts a thread only when none is in flight
send_webhook_update_serialised(S, url, event_type, data, was) ==
    IF S.threads # <<>>
    THEN [S EXCEPT !.emitted = Append(@, [ event_type |-> event_type, data |-> data,
                                           dispatched |-> FALSE, was |-> was ])]
    ELSE send_webhook_update_unguarded(S, url, event_type, data, was)

\* _send_webhook_update: the guard on the URL, the payload, the thread start.
\* History fields: ev.dispatched (a thread was started for the event), ev.was
\* (the tracker when the handler that generated the event was called) and
\* thread.dispatch_url (the URL when the thread was started).
send_webhook_update(S, url, event_type, data, was) ==
    LET ev == [ event_type |-> event_type, data |-> data, dispatched |-> FALSE,
                was |-> was ]
        payload == [ event_type |-> event_type, data |-> data,
                     plugin_version |-> PluginVersion ]
        thread == [ payload |-> payload, dispatch_url |-> url ]
    IN  IF Unconfigured(url)
        THEN [S EXCEPT !.emitted = Append(@, ev)]
        ELSE [S EXCEPT !.emitted = Append(@, [ev EXCEPT !.dispatched = TRUE]),
                       !.threads = Append(@, thread)]

\* the tracker when a handler is called
Was(S) ==
    [ is_printing |-> S.is_printing, current_job_name |-> S.current_job_name,
      last_progress |-> S.last_progress ]

\* _on_print_job_changed whose end branch does not reset _last_progress
on_print_job_changed_keeps_progress(S, url, t, job) ==
    IF job = None
    THEN send_webhook_update(
            [S EXCEPT !.is_printing = FALSE, !.current_job_name = ""],
            url, "print_ended",
            [ message |-> "Print job ended or cancelled", timestamp |-> t ], Was(S))
    ELSE send_webhook_update(
            [S EXCEPT !.is_printing = TRUE, !.current_job_name = JobName(job),
                      !.print_start_time = t, !.last_progress = 0],
            url, "print_started",
            [ job_name |-> JobName(job), start_time |-> t ], Was(S))

\* _on_print_job_changed whose start branch leaves _last_progress at -1
on_print_job_changed_starts_unreported(S, url, t, job) ==
    IF job = None
    THEN send_webhook_update(
            [S EXCEPT !.is_printing = FALSE, !.current_job_name = "", !.last_progress = -1],
            url, "print_ended",
            [ message |-> "Print job ended or cancelled", timestamp |-> t ], Was(S))
    ELSE send_webhook_update(
            [S EXCEPT !.is_printing = TRUE, !.current_job_name = JobName(job),
                      !.print_start_time = t, !.last_progress = -1],
            url, "print_started",
            [ job_name |-> JobName(job), start_time |-> t ], Was(S))

\* _on_print_job_changed whose end branch leaves _is_printing set
on_print_job_changed_stays_printing(S, url, t, job) ==
    IF job = None
    THEN send_webhook_update(
            [S EXCEPT !.current_job_name = "", !.last_progress = -1],
            url, "print_ended",
            [ message |-> "Print job ended or cancelled", timestamp |-> t ], Was(S))
    ELSE send_webhook_update(
            [S EXCEPT !.is_printing = TRUE, !.current_job_name = JobName(job),
                      !.print_start_time = t, !.last_progress = 0],
            url, "print_started",
            [ job_name |-> JobName(job), start_time |-> t ], Was(S))

\* _on_print_job_changed
on_print_job_changed(S, url, t, job) ==
    IF job = None
    THEN send_webhook_update(
            [S EXCEPT !.is_printing = FALSE, !.current_job_name = "", !.last_progress = -1],
            url, "print_ended",
            [ message |-> "Print job ended or cancelled", timestamp |-> t ], Was(S))
    ELSE send_webhook_update(
            [S EXCEPT !.is_printing = TRUE, !.current_job_name = JobName(job),
                      !.print_start_time = t, !.last_progress = 0],
            url, "print_started",
            [ job_name |-> JobName(job), start_time |-> t ], Was(S))

\* the progress_update of _on_print_progress_changed
ProgressUpdate(S, url, t, progress) ==
    LET progress_percent == IntPercent(progress)
        elapsed_time == t - S.print_start_time
        estimated_total == EstimatedTotal(elapsed_time, progress)
    IN  send_webhook_update(
            [S EXCEPT !.last_progress = progress_percent],
            url, "progress_update",
            [ job_name |-> S.current_job_name,
              progress_percent |-> progress_percent,
              elapsed_time_seconds |-> elapsed_time,
              estimated_remaining_seconds |-> estimated_total - elapsed_time,
              timestamp |-> t ], Was(S))

\* _on_print_progress_changed comparing with >= instead of >
on_print_progress_changed_not_strict(S, url, t, progress) ==
    IF ~S.is_printing THEN S
    ELSE IF IntPercent(progress) >= S.last_progress
    THEN ProgressUpdate(S, url, t, progress)
    ELSE S

\* _on_print_progress_changed without its guard on _is_printing
on_print_progress_changed_while_idle(S, url, t, progress) ==
    IF IntPercent(progress) > S.last_progress
    THEN ProgressUpdate(S, url, t, progress)
    ELSE S

\* _on_print_progress_changed
on_print_progress_changed(S, url, t, progress) ==
    IF ~S.is_printing THEN S
    ELSE IF IntPercent(progress) > S.last_progress
    THEN ProgressUpdate(S, url, t, progress)
    ELSE S

----------------------------------------------------------------------------
(* The poller tick. *)

\* what the accessors of a job and of its device give: job.getProgress() and
\* device.printProgress, each absent (no such attribute), None or a float
Reading(has, none, val) == [ has |-> has, none |-> none, val |-> val ]

Readings ==
    { [ job |-> Reading(TRUE, FALSE, 0), dev |-> Reading(TRUE, FALSE, 110) ],
      [ job |-> Reading(TRUE, FALSE, 110), dev |-> Reading(TRUE, FALSE, 0) ],
      [ job |-> Reading(TRUE, TRUE, 0), dev |-> Reading(TRUE, FALSE, 110) ],
      [ job |-> Reading(FALSE, FALSE, 0), dev |-> Reading(TRUE, FALSE, 105) ],
      [ job |-> Reading(FALSE, FALSE, 0), dev |-> Reading(FALSE, FALSE, 0) ] }

\* progress = 0.0; if hasattr(job, 'getProgress'): ...; elif hasattr(device, 'printProgress'): ...
ReadProgress(r) ==
    IF r.job.has THEN [ none |-> r.job.none, val |-> r.job.val ]
    ELSE IF r.dev.has THEN [ none |-> r.dev.none, val |-> r.dev.val ]
    ELSE [ none |-> FALSE, val |-> 0 ]

\* where a read of the host raises during a tick: nowhere, or at one device, at the
\* read of activePrintJob or at the read of the progress
NoFail == [ dev |-> 0, at |-> "" ]
Fails == {NoFail} \cup [ dev : Devices, at : {"activePrintJob", "getProgress"} ]

\* the for loop of _check_print_progress over the devices `todo` (a sequence); T
\* carries the plugin (T.S), the devices the loop has processed, whether a read
\* raised (T.raised) and whether the exception left _check_print_progress
\* (T.propagates: never, the except clause of line 156 catches it). An exception
\* leaves the loop: the try is around the for.
RECURSIVE CheckLoop(_, _, _, _, _, _, _)
CheckLoop(T, url, t, devs, reads, fail, todo) ==
    IF todo = <<>> THEN T
    ELSE LET d == Head(todo)
             rest == Tail(todo)
         IN
         IF devs[d] = NoAttr
         THEN CheckLoop([T EXCEPT !.visited = @ \cup {d}], url, t, devs, reads, fail, rest)
         ELSE IF fail = [ dev |-> d, at |-> "activePrintJob" ]
         THEN [T EXCEPT !.raised = TRUE]
         ELSE IF devs[d] # None
         THEN LET S1 == IF ~T.S.is_printing
                        THEN on_print_job_changed(T.S, url, t, devs[d])
                        ELSE T.S
              IN  IF fail = [ dev |-> d, at |-> "getProgress" ]
                  THEN [T EXCEPT !.S = S1, !.raised = TRUE]
                  ELSE LET progress == ReadProgress(reads[d])
                           S2 == IF ~progress.none
                                 THEN on_print_progress_changed(S1, url, t, progress.val)
                                 ELSE S1
                       IN  CheckLoop([T EXCEPT !.S = S2, !.visited = @ \cup {d}],
                                     url, t, devs, reads, fail, rest)
         ELSE IF T.S.is_printing
         THEN CheckLoop([T EXCEPT !.S = on_print_job_changed(T.S, url, t, None),
                                  !.visited = @ \cup {d}],
                        url, t, devs, reads, fail, rest)
         ELSE CheckLoop([T EXCEPT !.visited = @ \cup {d}], url, t, devs, reads, fail, rest)

\* the device list as a sequence
DeviceList == <<1, 2>>

\* _check_print_progress without its try: an exception of a read leaves the slot
check_print_progress_uncaught(S, url, t, devs, reads, fail) ==
    LET T0 == [ S |-> S, visited |-> {}, raised |-> FALSE, propagates |-> FALSE ]
        L == CheckLoop(T0, url, t, devs, reads, fail, DeviceList)
    IN  IF Unconfigured(url) THEN T0
        ELSE [L EXCEPT !.propagates = L.raised]

\* _check_print_progress without its early return on the URL
check_print_progress_unguarded(S, url, t, devs, reads, fail) ==
    LET T0 == [ S |-> S, visited |-> {}, raised |-> FALSE, propagates |-> FALSE ]
        L == CheckLoop(T0, url, t, devs, reads, fail, DeviceList)
    IN  [L EXCEPT !.propagates = FALSE]

\* _check_print_progress: the early return on the URL, the loop inside the try,
\* the except clause that logs and returns
check_print_progress(S, url, t, devs, reads, fail) ==
    LET T0 == [ S |-> S, visited |-> {}, raised |-> FALSE, propagates |-> FALSE ]
        L == CheckLoop(T0, url, t, devs, reads, fail, DeviceList)
    IN  IF Unconfigured(url) THEN T0
        ELSE [L EXCEPT !.propagates = FALSE]

----------------------------------------------------------------------------
(* The sender thread. *)

\* what urlopen does with a request: a response with a status, or an exception
Outcomes == { "status_200", "status_204", "HTTPError_307", "HTTPError_404",
              "HTTPError_500", "URLError", "timeout", "Exception" }

\* urllib.request.Request(self._webhook_url, ...): the URL of the request is read
\* from the plugin when the thread runs
RequestUrl(thread, url) == url

\* Request("") raises ValueError (unknown url type) before anything is sent
RequestRaises(req_url) == req_url = ""

\* the status code of an outcome that has one: response.getcode() or e.code
Status(outcome) ==
    CASE outcome = "status_200" -> 200
      [] outcome = "status_204" -> 204
      [] outcome = "HTTPError_307" -> 307
      [] outcome = "HTTPError_404" -> 404
      [] outcome = "HTTPError_500" -> 500
      [] OTHER -> 0

\* the outcomes urlopen returns as a response, and those it raises as HTTPError
Responses == {"status_200", "status_204"}
HTTPErrors == {"HTTPError_307", "HTTPError_404", "HTTPError_500"}

\* the status codes a log line of _send_webhook_request carries: the line of a 200
\* names the event type, the lines of URLError and Exception a reason
LogCodes(outcome) ==
    IF outcome \in (Responses \cup HTTPErrors) \ {"status_200"}
    THEN <<Status(outcome)>>
    ELSE <<>>

\* the levels of _send_webhook_request if every 2xx response counted as a success
LogLevel_any_2xx(outcome) ==
    IF outcome \in Responses THEN "d" ELSE "e"

\* the Logger.log level each branch of _send_webhook_request ends in
LogLevel(outcome) ==
    IF outcome = "status_200" THEN "d"
    ELSE IF outcome = "status_204" THEN "w"
    ELSE "e"

\* _send_webhook_request without its last except clause: only HTTPError and
\* URLError are caught
send_webhook_request_uncaught(S, url, thread, outcome) ==
    LET req_url == RequestUrl(thread, url)
    IN  IF RequestRaises(req_url)
        THEN [ S |-> S, posts |-> <<>>, logs |-> <<>>, codes |-> <<>>,
               propagates |-> TRUE ]
        ELSE IF outcome \in {"timeout", "Exception"}
        THEN [ S |-> S, posts |-> <<req_url>>, logs |-> <<>>, codes |-> <<>>,
               propagates |-> TRUE ]
        ELSE [ S |-> S, posts |-> <<req_url>>, logs |-> <<LogLevel(outcome)>>,
               codes |-> LogCodes(outcome), propagates |-> FALSE ]

\* _send_webhook_request run by `thread` on the plugin S while its URL is `url`:
\* the plugin afterwards, the POSTs the thread issued (the URL of each), the log
\* lines it wrote (the level of each, and the status codes they carry) and whether
\* an exception left the function
send_webhook_request(S, url, thread, outcome) ==
    LET req_url == RequestUrl(thread, url)
    IN  IF RequestRaises(req_url)
        THEN [ S |-> S, posts |-> <<>>, logs |-> <<"e">>, codes |-> <<>>,
               propagates |-> FALSE ]
        ELSE [ S |-> S, posts |-> <<req_url>>, logs |-> <<LogLevel(outcome)>>,
               codes |-> LogCodes(outcome), propagates |-> FALSE ]

----------------------------------------------------------------------------
(* The state machine. *)

NoLast ==
    [ op |-> "init", job |-> None, progress |-> 0, url |-> "", outcome |-> "",
      thread |-> <<>>, index |-> 0, posts |-> <<>>, logs |-> <<>>, propagates |-> FALSE,
      raised |-> FALSE, visited |-> {}, emitted |-> <<>>, started |-> 0,
      was_printing |-> FALSE, codes |-> <<>>, prev_raised |-> FALSE ]

\* the record of a step: the handler, its inputs, whether the tracker was printing
\* before it, the events it generated and the number of threads it started
Last(op) == [NoLast EXCEPT !.op = op, !.was_printing = is_printing]

\* __init__ with _load_settings: the URL is the placeholder, the tracker idle, the
\* timer running; the host has its devices, each with or without activePrintJob
Init ==
    /\ webhook_url = SentinelUrl
    /\ last_progress = -1
    /\ is_printing = FALSE
    /\ current_job_name = ""
    /\ print_start_time = 0
    /\ activePrintJob \in [Devices -> {NoAttr, None}]
    /\ now = 1
    /\ threads = <<>>
    /\ check_timer_active = TRUE
    /\ started_job = ""
    /\ start_dispatched = FALSE
    /\ last = NoLast

\* the print_started and print_ended events among the events of a handler
Lifecycle(emitted) ==
    { k \in 1..Len(emitted) : emitted[k].event_type \in {"print_started", "print_ended"} }

\* the greatest element of a non-empty set of numbers
Greatest(ks) == CHOOSE k \in ks : \A j \in ks : j <= k

\* history: the job of the print_started generated since the last print_ended,
\* after a handler that generated the events `emitted`
StartedJobAfter(emitted) ==
    IF Lifecycle(emitted) = {} THEN started_job
    ELSE LET e == emitted[Greatest(Lifecycle(emitted))]
         IN  IF e.event_type = "print_started" THEN e.data.job_name ELSE ""

\* history: whether a thread was started for that print_started
StartDispatchedAfter(emitted) ==
    IF Lifecycle(emitted) = {} THEN start_dispatched
    ELSE LET e == emitted[Greatest(Lifecycle(emitted))]
         IN  e.event_type = "print_started" /\ e.dispatched

\* the plugin's fields take the values of the record S. The threads the handler
\* started join the threads in flight, and the history of the dispatches is kept,
\* when the specification follows the sender threads (follow); otherwise they are
\* recorded in last.emitted only.
Store(S, follow) ==
    /\ is_printing' = S.is_printing
    /\ current_job_name' = S.current_job_name
    /\ print_start_time' = S.print_start_time
    /\ last_progress' = S.last_progress
    /\ IF follow
       THEN /\ Len(S.threads) <= MaxThreads
            /\ threads' = S.threads
            /\ started_job' = StartedJobAfter(S.emitted)
            /\ start_dispatched' = StartDispatchedAfter(S.emitted)
       ELSE UNCHANGED <<threads, started_job, start_dispatched>>

\* a device emits printJobChanged: _on_print_job_changed(job)
PushJobChanged(job, follow) ==
    LET S == on_print_job_changed(Self, webhook_url, now, job)
    IN  /\ Store(S, follow)
        /\ last' = [Last("job_changed") EXCEPT !.job = job, !.emitted = S.emitted,
                        !.started = Len(S.threads) - Len(threads)]
        /\ UNCHANGED <<webhook_url, activePrintJob, now, check_timer_active>>

\* a device emits printProgressChanged: _on_print_progress_changed(progress)
PushProgressChanged(progress, follow) ==
    LET S == on_print_progress_changed(Self, webhook_url, now, progress)
    IN  /\ Store(S, follow)
        /\ last' = [Last("progress_changed") EXCEPT !.progress = progress,
                        !.emitted = S.emitted, !.started = Len(S.threads) - Len(threads)]
        /\ UNCHANGED <<webhook_url, activePrintJob, now, check_timer_active>>

\* the QTimer fires (it is not single shot: it fires as long as it runs) and
\* its timeout calls the slot _check_print_progress(). An exception that leaves a
\* slot is not handled by anything in the plugin: the poller is taken to end there.
\* last.prev_raised: the step before was a tick in which a read of the host raised.
Tick(reads, fail, follow) ==
    LET T == check_print_progress(Self, webhook_url, now, activePrintJob, reads, fail)
    IN  /\ check_timer_active
        /\ fail # NoFail => T.raised
        /\ Store(T.S, follow)
        /\ check_timer_active' = ~T.propagates
        /\ last' = [Last("tick") EXCEPT !.raised = T.raised, !.visited = T.visited,
                        !.prev_raised = (last.op = "tick" /\ last.raised),
                        !.propagates = T.propagates, !.emitted = T.S.emitted,
                        !.started = Len(T.S.threads) - Len(threads)]
        /\ UNCHANGED <<webhook_url, activePrintJob, now>>

\* setWebhookUrl(url)
setWebhookUrl(url) ==
    /\ webhook_url' = url
    /\ last' = [Last("setWebhookUrl") EXCEPT !.url = url]
    /\ UNCHANGED <<last_progress, is_printing, current_job_name, print_start_time,
                   activePrintJob, now, threads, check_timer_active, started_job,
                   start_dispatched>>

\* the sequence s without its i-th element
Remove(s, i) == [ k \in 1..(Len(s) - 1) |-> IF k < i THEN s[k] ELSE s[k + 1] ]

\* the i-th thread in flight runs _send_webhook_request and ends; urlopen ends in
\* `outcome`
RunThread(i, outcome) ==
    /\ i \in 1..Len(threads)
    /\ RequestRaises(RequestUrl(threads[i], webhook_url)) => outcome = "Exception"
    /\ LET R == send_webhook_request(Self, webhook_url, threads[i], outcome)
       IN  /\ is_printing' = R.S.is_printing
           /\ current_job_name' = R.S.current_job_name
           /\ print_start_time' = R.S.print_start_time
           /\ last_progress' = R.S.last_progress
           /\ threads' = Remove(R.S.threads, i)
           /\ last' = [Last("send_webhook_request") EXCEPT
                           !.thread = <<threads[i]>>, !.index = i, !.outcome = outcome,
                           !.posts = R.posts, !.logs = R.logs, !.codes = R.codes,
                           !.propagates = R.propagates]
    /\ UNCHANGED <<webhook_url, activePrintJob, now, check_timer_active, started_job,
                   start_dispatched>>

\* the host: a device's active job starts, changes or ends
HostSetJob(d, job) ==
    /\ activePrintJob[d] # NoAttr
    /\ activePrintJob[d] # job
    /\ activePrintJob' = [activePrintJob EXCEPT ![d] = job]
    /\ last' = [Last("host_job") EXCEPT !.job = job]
    /\ UNCHANGED <<webhook_url, last_progress, is_printing, current_job_name,
                   print_start_time, now, threads, check_timer_active, started_job,
                   start_dispatched>>

\* the host: time passes
Advance ==
    /\ now < MaxTime
    /\ now' = now + 1
    /\ last' = Last("advance")
    /\ UNCHANGED <<webhook_url, last_progress, is_printing, current_job_name,
                   print_start_time, activePrintJob, threads, check_timer_active,
                   started_job, start_dispatched>>

\* the devices whose progress a tick reads
Reading_devices == { d \in Devices : activePrintJob[d] \notin {None, NoAttr} }

\* the reads of a tick that can raise
FailsNow ==
    {NoFail}
    \cup { [ dev |-> d, at |-> "activePrintJob" ] : d \in { x \in Devices : activePrintJob[x] # NoAttr } }
    \cup { [ dev |-> d, at |-> "getProgress" ] : d \in Reading_devices }

\* The tracker under every interleaving of the push signals, the ticks, the setter
\* and the host. The threads the handlers start are not followed here.
Next ==
    \/ \E job \in Jobs \cup {None} : PushJobChanged(job, FALSE)
    \/ \E progress \in ProgressVals : PushProgressChanged(progress, FALSE)
    \/ \E reads \in [Reading_devices -> Readings], fail \in FailsNow : Tick(reads, fail, FALSE)
    \/ \E url \in Urls : setWebhookUrl(url)
    \/ \E d \in Devices, job \in Jobs \cup {None} : HostSetJob(d, job)
    \/ Advance

Spec == Init /\ [][Next]_vars

\* The sender threads under every interleaving with the handlers that start them
\* and with the setter: one device with one job, one progress value.
InitSender ==
    /\ Init
    /\ activePrintJob = [ d \in Devices |-> IF d = 1 THEN None ELSE NoAttr ]

SenderJob == "benchy.gcode"
SenderReading == [ job |-> Reading(TRUE, FALSE, 110), dev |-> Reading(FALSE, FALSE, 0) ]

NextSender ==
    \/ \E job \in {SenderJob, None} : PushJobChanged(job, TRUE)
    \/ PushProgressChanged(110, TRUE)
    \/ Tick([ d \in Reading_devices |-> SenderReading ], NoFail, TRUE)
    \/ \E url \in Urls : setWebhookUrl(url)
    \/ \E i \in 1..MaxThreads, outcome \in Outcomes : RunThread(i, outcome)
    \/ \E job \in {SenderJob, None} : HostSetJob(1, job)

SpecSender == InitSender /\ [][NextSender]_vars

\* The poller alone: no device pushes a signal, the host changes the jobs of its
\* devices, the URL is set, and no read of the host raises. The timer is started
\* by __init__ with an interval of 5000 ms and is not single shot: as long as it
\* runs, a tick that can happen does happen.
PollerTick == \E reads \in [Reading_devices -> Readings] : Tick(reads, NoFail, FALSE)

NextPoller ==
    \/ PollerTick
    \/ \E url \in Urls : setWebhookUrl(url)
    \/ \E d \in Devices, job \in Jobs \cup {None} : HostSetJob(d, job)

SpecPoller == Init /\ [][NextPoller]_vars /\ WF_vars(PollerTick)

----------------------------------------------------------------------------
(* The claims. The events a step generated are last.emitted; the tracker a   *)
(* handler found when it was called is the event's field `was`.             *)

IsStarted(e) == e.event_type = "print_started"
IsEnded(e) == e.event_type = "print_ended"
IsProgress(e) == e.event_type = "progress_update"

\* the tracker fields have their idle values
TrackerReset(S) ==
    /\ S.is_printing = FALSE
    /\ S.current_job_name = ""
    /\ S.last_progress = -1

\* C1: over any interleaving of push signals and ticks, a job-changed signal that
\* takes the tracker from no job to a job produces exactly one print_started, a
\* progress_update is produced only for the job whose print_started came before
\* it, and print_started is not produced again for a job the tracker is already
\* printing.
C1_StartedOnceBeforeProgress ==
    /\ \A k \in 1..Len(last.emitted) :
          LET e == last.emitted[k]
          IN  /\ IsStarted(e) =>
                    ~(e.was.is_printing /\ e.was.current_job_name = e.data.job_name)
              /\ IsProgress(e) =>
                    (e.was.is_printing /\ e.was.current_job_name = e.data.job_name)
    /\ (last.op = "job_changed" /\ last.job # None /\ ~last.was_printing) =>
          Len(SelectSeq(last.emitted, IsStarted)) = 1

\* C2: whenever the tracker is printing and a job-changed signal with a null job
\* is processed, pushed or synthesized by a tick, exactly one print_ended is
\* produced and is_printing, current_job_name and last_progress are reset.
C2_PrintEndedResets ==
    /\ (last.op = "job_changed" /\ last.job = None /\ last.was_printing) =>
          /\ Len(last.emitted) = 1
          /\ IsEnded(last.emitted[1])
          /\ TrackerReset(Self)
    /\ (last.op = "tick" /\ last.emitted # <<>>
            /\ IsEnded(last.emitted[Len(last.emitted)])) =>
          /\ last.emitted[Len(last.emitted)].was.is_printing
          /\ TrackerReset(Self)
    /\ is_printing =>
          LET R == on_print_job_changed(Self, webhook_url, now, None)
          IN  /\ Len(R.emitted) = 1
              /\ IsEnded(R.emitted[1])
              /\ TrackerReset(R)

\* C2: a pushed null job has ended a print
C2_Witness ==
    /\ last.op = "job_changed" /\ last.job = None /\ last.was_printing
    /\ ~is_printing
    /\ Len(last.emitted) = 1

C4_ProgressNeverDecreases ==
    [][(is_printing /\ is_printing') => last_progress' >= last_progress]_vars

\* C5: in every reachable state, if is_printing is false then last_progress is -1.
C5_IdleMeansNoProgress == ~is_printing => last_progress = -1

\* C5: a progress signal arrives while the tracker is idle
C5_Witness ==
    /\ last.op = "progress_changed" /\ last.progress = 110
    /\ ~last.was_printing /\ ~is_printing
    /\ last_progress = -1

\* C6 as stated: no HTTP POST happens at a moment when the configured URL is empty
\* or the placeholder.
C6_NoPostWhileUnconfigured ==
    (last.op = "send_webhook_request" /\ last.posts # <<>>) => ~Unconfigured(webhook_url)

\* C6 as amended: no HTTP call is ever issued for an event generated while the URL
\* is unconfigured: such an event starts no thread, every thread in flight was
\* started under a configured URL, and so was every thread that issues a POST.
C6_NoPostForSuppressedEvent ==
    /\ \A k \in 1..Len(last.emitted) :
          last.emitted[k].dispatched = ~Unconfigured(webhook_url)
    /\ last.started = Len(SelectSeq(last.emitted, LAMBDA e : e.dispatched))
    /\ \A i \in 1..Len(threads) : ~Unconfigured(threads[i].dispatch_url)
    /\ (last.op = "send_webhook_request" /\ last.posts # <<>>) =>
          ~Unconfigured(last.thread[1].dispatch_url)

\* C6: an event is generated while the URL is unconfigured and starts no thread
C6_Witness ==
    /\ last.op = "job_changed" /\ Unconfigured(webhook_url)
    /\ Len(last.emitted) = 1 /\ ~last.emitted[1].dispatched
    /\ last.started = 0

\* C7: every event generated while the URL is configured leads to exactly one
\* HTTP POST attempt, whatever the outcome: the thread started for it issues one
\* POST, no more and no less.
C7_ExactlyOneAttempt ==
    last.op = "send_webhook_request" => Len(last.posts) = 1

\* C8: whatever the outcome of a send, the thread writes one log line and ends,
\* no exception leaves _send_webhook_request, and the tracker fields and the URL
\* are left as they were.
C8_SenderNeverPropagates ==
    [][last'.op = "send_webhook_request" =>
          /\ Len(last'.logs) = 1
          /\ ~last'.propagates
          /\ Len(threads') = Len(threads) - 1
          /\ UNCHANGED <<is_printing, current_job_name, print_start_time,
                         last_progress, webhook_url>>]_vars

\* C8: a send has timed out
C8_Witness ==
    /\ last.op = "send_webhook_request" /\ last.outcome = "timeout"
    /\ last.logs = <<"e">> /\ ~last.propagates

\* the antecedent of C9: the tracker was printing with last_progress 0 and the
\* progress 0 arrived (last_progress is 0 afterwards with or without an event)
C9_ZeroAtStart ==
    /\ last.op = "progress_changed" /\ last.progress = 0
    /\ last.was_printing /\ last_progress = 0

\* C9 as stated: printing with the job at 0, a progress of exactly 0 gives a
\* progress_update with progress_percent 0 whose estimate divides by the 0.01 floor.
C9_ZeroProgressUpdate ==
    C9_ZeroAtStart =>
        /\ Len(last.emitted) = 1
        /\ IsProgress(last.emitted[1])
        /\ last.emitted[1].data.progress_percent = 0
        /\ last.emitted[1].data.estimated_remaining_seconds =
              last.emitted[1].data.elapsed_time_seconds * 100
                  - last.emitted[1].data.elapsed_time_seconds

\* C9 as amended: printing with last_progress 0 (a job has just started), a
\* progress of exactly 0 gives no event and leaves the tracker as it was; every
\* progress_update carries a progress_percent of at least 1, so the 0.01 floor is
\* never applied.
C9_ZeroProgressIsDeduplicated ==
    /\ C9_ZeroAtStart => last.emitted = <<>>
    /\ \A k \in 1..Len(last.emitted) :
          IsProgress(last.emitted[k]) => last.emitted[k].data.progress_percent >= 1
    /\ (is_printing /\ last_progress = 0) =>
          LET R == on_print_progress_changed(Self, webhook_url, now, 0)
          IN  R.emitted = <<>> /\ R.last_progress = 0

\* C9: the progress 0 has arrived right after a start and given no event
C9_Witness == C9_ZeroAtStart /\ last.emitted = <<>> /\ is_printing

\* C10: the POST of a thread goes to the URL that was configured when the thread
\* was started.
C10_PostGoesToDispatchUrl ==
    (last.op = "send_webhook_request" /\ last.posts # <<>>) =>
        last.posts[1] = last.thread[1].dispatch_url

\* a send whose urlopen ended with an HTTP status
C11_Answered ==
    /\ last.op = "send_webhook_request" /\ last.posts # <<>>
    /\ last.outcome \in Responses \cup HTTPErrors

\* C11 as stated: for every HTTP response the sender receives, status 200 is
\* logged as success and every other status code (other 2xx, 3xx, 4xx, 5xx) is
\* logged at warning level with the status code, and is not retried.
C11_OtherStatusesWarn ==
    C11_Answered =>
        /\ Len(last.posts) = 1
        /\ IF Status(last.outcome) = 200
           THEN last.logs = <<"d">>
           ELSE last.logs = <<"w">> /\ last.codes = <<Status(last.outcome)>>

\* C11 as amended: status 200 is logged as success; every other status that
\* urlopen returns as a response (another 2xx) is logged at warning level with the
\* status code; a status that urlopen raises as HTTPError (4xx, 5xx, a 3xx it does
\* not follow) is logged at error level with the status code; none is retried:
\* the thread issued one POST and started no other thread.
C11_StatusLogLevels ==
    C11_Answered =>
        /\ Len(last.posts) = 1
        /\ last.started = 0
        /\ Len(last.logs) = 1
        /\ last.outcome = "status_200" => last.logs = <<"d">> /\ last.codes = <<>>
        /\ last.outcome \in Responses \ {"status_200"} =>
              last.logs = <<"w">> /\ last.codes = <<Status(last.outcome)>>
        /\ last.outcome \in HTTPErrors =>
              last.logs = <<"e">> /\ last.codes = <<Status(last.outcome)>>

\* C11: a send was answered 404 and logged at error level with the code
C11_Witness ==
    /\ C11_Answered
    /\ last.outcome = "HTTPError_404"
    /\ last.logs = <<"e">> /\ last.codes = <<404>>

\* C12: a job-changed signal with a non-null job that arrives, by push or from
\* the poller, while the tracker is already printing emits no print_started and
\* leaves is_printing, current_job_name, print_start_time and last_progress
\* unchanged.
C12_StartOnlyFromIdle ==
    [][/\ (is_printing /\ last'.op = "job_changed" /\ last'.job # None) =>
             /\ last'.emitted = <<>>
             /\ UNCHANGED <<is_printing, current_job_name, print_start_time,
                            last_progress>>
       /\ \A k \in 1..Len(last'.emitted) :
             IsStarted(last'.emitted[k]) => ~last'.emitted[k].was.is_printing]_vars

\* C13: a job-changed signal with a null job that arrives while the tracker is
\* idle emits no print_ended: every print_ended is generated while a print that
\* was started has not ended yet.
C13_EndOnlyFromPrinting ==
    /\ (last.op = "job_changed" /\ last.job = None /\ ~last.was_printing) =>
          last.emitted = <<>>
    /\ \A k \in 1..Len(last.emitted) :
          IsEnded(last.emitted[k]) => last.emitted[k].was.is_printing

\* the step that led here dispatched a print_started / a print_ended
StartedDispatched ==
    \E k \in 1..Len(last.emitted) :
        IsStarted(last.emitted[k]) /\ last.emitted[k].dispatched
EndedDispatched ==
    \E k \in 1..Len(last.emitted) :
        IsEnded(last.emitted[k]) /\ last.emitted[k].dispatched

\* the URL is configured and device d reports a job / reports no job
HasJob(d) == ~Unconfigured(webhook_url) /\ activePrintJob[d] \notin {None, NoAttr}
HasNoJob(d) == ~Unconfigured(webhook_url) /\ activePrintJob[d] = None

\* if device d has a job from some point on, a print_started is dispatched and the
\* tracker is printing then or later
C14_Start(d) == <>[]HasJob(d) => <>(StartedDispatched /\ <>is_printing)

\* if, the tracker printing, device d has no job from some point on, a print_ended
\* is dispatched and the tracker is idle then or later
C14_End(d) ==
    [](is_printing => (<>[]HasNoJob(d) => <>(EndedDispatched /\ <>(~is_printing))))

\* C14: with the URL configured, no push signal and ticks firing fairly, if a
\* device's activePrintJob becomes non-null and stays non-null then eventually the
\* tracker is printing and a print_started has been dispatched, and if afterwards
\* it becomes null and stays null then eventually the tracker is idle and a
\* print_ended has been dispatched.
C14_PollerRedundancy ==
    /\ C14_Start(1) /\ C14_Start(2)
    /\ C14_End(1) /\ C14_End(2)

\* the devices a tick did not get to, and the first of them in the device list
C15_Unvisited == Devices \ last.visited
C15_Failing == CHOOSE d \in C15_Unvisited : \A x \in C15_Unvisited : d <= x

\* C15: if reading one device's state raises during a tick, every other device of
\* the device collection is still processed in that tick (a device without
\* activePrintJob has nothing to process).
C15_ErrorContainedPerDevice ==
    (last.op = "tick" /\ last.raised) =>
        \A d \in C15_Unvisited \ {C15_Failing} : activePrintJob[d] = NoAttr

\* the devices that have activePrintJob, and the last of them in the device list
AttrDevices == { d \in Devices : activePrintJob[d] # NoAttr }
LastAttrDevice == CHOOSE d \in AttrDevices : \A x \in AttrDevices : x <= d

\* a tick that completed with the URL configured, right after a tick that raised
C16_TickAfterRaise ==
    /\ last.op = "tick" /\ last.prev_raised /\ ~last.raised
    /\ ~Unconfigured(webhook_url)

\* C16: an exception raised inside a tick is caught within the tick and does not
\* stop the poller: the timer keeps running, and the tick after a failing tick
\* goes through all the devices and detects job start (print_started when the
\* tracker becomes printing), progress (progress_update above the last percent)
\* and job end (print_ended when the tracker becomes idle).
C16_TickFaultTolerant ==
    /\ check_timer_active
    /\ last.op = "tick" => ~last.propagates
    /\ C16_TickAfterRaise =>
          /\ last.visited = Devices
          /\ AttrDevices # {} => (is_printing <=> activePrintJob[LastAttrDevice] # None)
          /\ (~last.was_printing /\ is_printing) =>
                \E k \in 1..Len(last.emitted) : IsStarted(last.emitted[k])
          /\ (last.was_printing /\ ~is_printing) =>
                \E k \in 1..Len(last.emitted) : IsEnded(last.emitted[k])
          /\ \A k \in 1..Len(last.emitted) :
                IsProgress(last.emitted[k]) =>
                    /\ last.emitted[k].was.is_printing
                    /\ last.emitted[k].data.progress_percent
                          > last.emitted[k].was.last_progress

\* C16: the tick after a failing tick has detected a job start and its progress
C16_Witness ==
    /\ C16_TickAfterRaise
    /\ ~last.was_printing /\ is_printing
    /\ Len(last.emitted) = 2
    /\ IsStarted(last.emitted[1]) /\ IsProgress(last.emitted[2])

\* C17: a tick that runs while the URL is unconfigured reads no device, emits no
\* event and leaves is_printing, current_job_name, print_start_time and
\* last_progress unchanged, whatever the devices report.
C17_UnconfiguredTickIsNoOp ==
    [][(last'.op = "tick" /\ Unconfigured(webhook_url)) =>
          /\ last'.visited = {}
          /\ last'.emitted = <<>>
          /\ ~last'.raised
          /\ UNCHANGED <<is_printing, current_job_name, print_start_time,
                         last_progress, webhook_url>>]_vars

\* C17: a tick has run with the URL unconfigured while a device reports a job the
\* tracker has not started
C17_Witness ==
    /\ last.op = "tick" /\ Unconfigured(webhook_url)
    /\ \E d \in Devices : activePrintJob[d] \in Jobs
    /\ ~is_printing
    /\ last.visited = {} /\ last.emitted = <<>>

\* C18: if no push signal arrives and every device reports the same
\* activePrintJob as at the previous completed tick, a tick emits neither
\* print_started nor print_ended and does not change is_printing, for any number
\* of devices.
C18_TicksStable ==
    [][(/\ last.op = "tick" /\ ~last.raised
        /\ last'.op = "tick" /\ ~last'.raised
        /\ ~Unconfigured(webhook_url)) =>
          /\ \A k \in 1..Len(last'.emitted) :
                ~IsStarted(last'.emitted[k]) /\ ~IsEnded(last'.emitted[k])
          /\ is_printing' = is_printing]_vars

\* the print_started and print_ended events a handler generated before its k-th
\* event
C19_Before(emitted, k) == { j \in Lifecycle(emitted) : j < k }

\* C19 as stated: under every interleaving of setWebhookUrl with the job and
\* progress signals, every progress_update a thread is started for is preceded by
\* a dispatched print_started for the same job since the last print_ended.
C19_ProgressAfterDispatchedStart ==
    [][\A k \in 1..Len(last'.emitted) :
          LET e == last'.emitted[k]
              before == C19_Before(last'.emitted, k)
          IN  (IsProgress(e) /\ e.dispatched) =>
                  IF before = {}
                  THEN start_dispatched /\ started_job = e.data.job_name
                  ELSE LET s == last'.emitted[Greatest(before)]
                       IN  /\ IsStarted(s) /\ s.dispatched
                           /\ s.data.job_name = e.data.job_name]_vars

\* C19 as amended: every progress_update a thread is started for is preceded by a
\* print_started generated for the same job since the last print_ended; that
\* print_started was dispatched only if the URL was configured when it was
\* generated.
C19_ProgressAfterGeneratedStart ==
    [][\A k \in 1..Len(last'.emitted) :
          LET e == last'.emitted[k]
              before == C19_Before(last'.emitted, k)
          IN  (IsProgress(e) /\ e.dispatched) =>
                  IF before = {}
                  THEN started_job # "" /\ started_job = e.data.job_name
                  ELSE LET s == last'.emitted[Greatest(before)]
                       IN  /\ IsStarted(s)
                           /\ s.dispatched = ~Unconfigured(webhook_url)
                           /\ s.data.job_name = e.data.job_name]_vars

\* C19: a progress_update is dispatched for a job whose print_started was generated
\* while the URL was unconfigured, and so was not dispatched
C19_Witness ==
    /\ last.op = "progress_changed"
    /\ Len(last.emitted) = 1
    /\ IsProgress(last.emitted[1]) /\ last.emitted[1].dispatched
    /\ started_job = last.emitted[1].data.job_name
    /\ ~start_dispatched

\* the tracker fields of a plugin record
Tracker(S) ==
    <<S.is_printing, S.current_job_name, S.print_start_time, S.last_progress>>

\* the handler of the step to last', run on the plugin with no thread in flight
C20_Alone ==
    LET S0 == [Self EXCEPT !.threads = <<>>]
    IN  CASE last'.op = "job_changed" ->
                on_print_job_changed(S0, webhook_url, now, last'.job)
          [] last'.op = "progress_changed" ->
                on_print_progress_changed(S0, webhook_url, now, last'.progress)
          [] OTHER ->
                check_print_progress(S0, webhook_url, now, activePrintJob,
                                     [ d \in Reading_devices |-> SenderReading ],
                                     NoFail).S

\* C20: threads are started in the order the events are generated, behind the
\* threads in flight; any thread in flight can be the next to complete; and the
\* threads in flight change neither the state transition nor the dispatches of a
\* handler: it does what it does with no thread in flight.
C20_IndependentDeliveries ==
    [][/\ last'.op \in {"job_changed", "progress_changed", "tick"} =>
             LET new == SelectSeq(last'.emitted, LAMBDA e : e.dispatched)
             IN  /\ Len(threads') = Len(threads) + Len(new)
                 /\ \A k \in 1..Len(threads) : threads'[k] = threads[k]
                 /\ \A k \in 1..Len(new) :
                       /\ threads'[Len(threads) + k].payload.event_type = new[k].event_type
                       /\ threads'[Len(threads) + k].payload.data = new[k].data
                 /\ last'.emitted = C20_Alone.emitted
                 /\ <<is_printing', current_job_name', print_start_time', last_progress'>>
                       = Tracker(C20_Alone)
       /\ last'.op = "send_webhook_request" =>
             /\ last'.index \in 1..Len(threads)
             /\ threads' = Remove(threads, last'.index)]_vars

\* C20: the progress_update of a job has reached the endpoint while the thread of
\* the print_started of that job, started before it, is still in flight
C20_Witness ==
    /\ last.op = "send_webhook_request" /\ last.index = 2
    /\ last.thread[1].payload.event_type = "progress_update"
    /\ last.posts # <<>> /\ last.outcome = "status_200"
    /\ Len(threads) = 1
    /\ threads[1].payload.event_type = "print_started"
    /\ threads[1].payload.data.job_name = last.thread[1].payload.data.job_name

====
